---- MODULE Spec2Model ----
(***************************************************************************)
(* Model of ResumAI (src/Code.py): the session state of the Streamlit      *)
(* script, the candidate-model fallback of get_gemini_response, the        *)
(* streaming Generate/Scan handlers, and the pure helpers                  *)
(* clean_ai_response, create_pdf and generate_portfolio_html.              *)
(*                                                                         *)
(* A Python str is modelled as a sequence of one-character strings, so     *)
(* that replace, strip, split, startswith and re.sub are computed the way  *)
(* the interpreter computes them.                                          *)
(***************************************************************************)
EXTENDS Integers, Sequences, FiniteSets, TLC

\* ---------------------------------------------------------------- bounds
\* number of pieces an input of clean_ai_response is put together from
MaxPieces == 3

\* length of the candidate model list
MaxModels == 2

\* fragments one streamed response delivers at most
MaxFragments == 2

\* lines of a text handed to create_pdf
MaxLines == 3

\* pieces the body of one line handed to create_pdf is put together from
MaxBodyPieces == 2

\* entries the history log may hold before Generate/Scan is no longer offered
MaxHistory == 2

\* ------------------------------------------------------- Python str model
Whitespace == {" ", "\n", "\t"}

\* s[i:] of Python (0-based i)
Drop(s, i) == SubSeq(s, i + 1, Len(s))

\* s[:i] of Python
Take(s, i) == SubSeq(s, 1, i)

\* str.startswith
StartsWith(s, p) == Len(s) >= Len(p) /\ Take(s, Len(p)) = p

\* str.find as a membership test: p occurs in s
Contains(s, p) == \E i \in 0..(Len(s) - Len(p)) : SubSeq(s, i + 1, i + Len(p)) = p

\* str.replace(old, new): left to right, non-overlapping, one pass (old # "")
RECURSIVE ReplaceAll(_, _, _)
ReplaceAll(s, old, new) ==
    IF Len(s) < Len(old) THEN s
    ELSE IF StartsWith(s, old) THEN new \o ReplaceAll(Drop(s, Len(old)), old, new)
    ELSE <<Head(s)>> \o ReplaceAll(Tail(s), old, new)

RECURSIVE LStrip(_)
LStrip(s) == IF s # <<>> /\ Head(s) \in Whitespace THEN LStrip(Tail(s)) ELSE s

RECURSIVE RStrip(_)
RStrip(s) ==
    IF s # <<>> /\ s[Len(s)] \in Whitespace THEN RStrip(Take(s, Len(s) - 1)) ELSE s

\* str.strip()
Strip(s) == RStrip(LStrip(s))

\* str.split(sep) for a one-character sep: always at least one field
RECURSIVE SplitAcc(_, _, _)
SplitAcc(s, sep, cur) ==
    IF s = <<>> THEN <<cur>>
    ELSE IF Head(s) = sep THEN <<cur>> \o SplitAcc(Tail(s), sep, <<>>)
    ELSE SplitAcc(Tail(s), sep, Append(cur, Head(s)))

Split(s, sep) == SplitAcc(s, sep, <<>>)

\* concatenation of a sequence of strings
RECURSIVE Concat(_)
Concat(ss) == IF ss = <<>> THEN <<>> ELSE Head(ss) \o Concat(Tail(ss))

\* all sequences over S of length at most n
SeqUpTo(S, n) == UNION {[1..k -> S] : k \in 0..n}

\* ------------------------------------------------------ clean_ai_response
\* the backquote character (written "^": a TLA+ string cannot hold a backquote)
BQ == "^"

\* the opening fence tagged html, and the bare fence
FenceHtml == <<BQ, BQ, BQ, "h", "t", "m", "l">>

Fence == <<BQ, BQ, BQ>>

\* the same with the html fence only: a bare fence survives the call
clean_ai_response_HtmlOnly(text) == Strip(ReplaceAll(text, FenceHtml, <<>>))

clean_ai_response(text) ==
    Strip(ReplaceAll(ReplaceAll(text, FenceHtml, <<>>), Fence, <<>>))

\* ------------------------------------------------------------- create_pdf
\* Markup tags and the bullet glyph are one element each: "<b>" stands for
\* the three characters of the tag, "@ " for the glyph U+2022 and a space.
BOpen == "<b>"

BClose == "</b>"

BulletGlyph == "@ "

Star2 == <<"*", "*">>

H1Prefix == <<"#", " ">>

H2Prefix == <<"#", "#", " ">>

H3Prefix == <<"#", "#", "#", " ">>

\* 0-based index of the first occurrence of p in s, or -1 (str.find)
Find(s, p) ==
    LET hits == {i \in 0..(Len(s) - Len(p)) : SubSeq(s, i + 1, i + Len(p)) = p}
    IN  IF hits = {} THEN -1 ELSE CHOOSE i \in hits : \A j \in hits : i <= j

\* re.sub(r'\*\*(.*?)\*\*', r'<b>\1</b>', s): leftmost, shortest, non-overlapping
RECURSIVE BoldSub(_)
BoldSub(s) ==
    IF Len(s) < 2 THEN s
    ELSE IF StartsWith(s, Star2) THEN
        LET rest == Drop(s, 2)
            j == Find(rest, Star2)
        IN  IF j = -1 THEN s
            ELSE <<BOpen>> \o Take(rest, j) \o <<BClose>> \o BoldSub(Drop(rest, j + 2))
    ELSE <<Head(s)>> \o BoldSub(Tail(s))

Paragraph(text, style) == [kind |-> "Paragraph", style |-> style, text |-> text]

Spacer(w, h) == [kind |-> "Spacer", style |-> "none", text |-> <<>>, size |-> <<w, h>>]

\* reportlab parses a Paragraph's text as markup when the Paragraph is made
\* and raises ValueError unless the tags are balanced
RECURSIVE TagsBalanced(_, _)
TagsBalanced(text, depth) ==
    IF text = <<>> THEN depth = 0
    ELSE IF Head(text) = BOpen THEN TagsBalanced(Tail(text), depth + 1)
    ELSE IF Head(text) = BClose THEN depth > 0 /\ TagsBalanced(Tail(text), depth - 1)
    ELSE TagsBalanced(Tail(text), depth)

ParagraphRaises(text) == ~TagsBalanced(text, 0)

\* one pass of the loop body of create_pdf without the blank-line test
RenderLine_NoSkip(raw) ==
    LET line == Strip(raw) IN
    IF StartsWith(line, H3Prefix) THEN
        <<Paragraph(<<BOpen>> \o ReplaceAll(ReplaceAll(line, H3Prefix, <<>>), Star2, <<>>)
                        \o <<BClose>>, "Heading3")>>
    ELSE IF StartsWith(line, H2Prefix) THEN
        <<Paragraph(ReplaceAll(ReplaceAll(line, H2Prefix, <<>>), Star2, <<>>), "Heading2")>>
    ELSE IF StartsWith(line, H1Prefix) THEN
        <<Paragraph(ReplaceAll(ReplaceAll(line, H1Prefix, <<>>), Star2, <<>>), "Heading1"),
          Spacer(1, 4)>>
    ELSE IF StartsWith(line, <<"*", " ">>) \/ StartsWith(line, <<"-", " ">>) THEN
        <<Paragraph(<<BulletGlyph>> \o BoldSub(Strip(Drop(line, 2))), "Bullet")>>
    ELSE
        <<Paragraph(BoldSub(line), "Normal"), Spacer(1, 2)>>

\* one pass of the loop body with the bullet marker left in place
RenderLine_KeepMarker(raw) ==
    LET line == Strip(raw) IN
    IF line = <<>> THEN <<>>
    ELSE IF StartsWith(line, <<"*", " ">>) \/ StartsWith(line, <<"-", " ">>) THEN
        <<Paragraph(<<BulletGlyph>> \o BoldSub(line), "Bullet")>>
    ELSE RenderLine_NoSkip(raw)

\* one pass of the loop body of create_pdf: the flowables one line appends
RenderLine(raw) ==
    LET line == Strip(raw) IN
    IF line = <<>> THEN <<>>
    ELSE IF StartsWith(line, H3Prefix) THEN
        <<Paragraph(<<BOpen>> \o ReplaceAll(ReplaceAll(line, H3Prefix, <<>>), Star2, <<>>)
                        \o <<BClose>>, "Heading3")>>
    ELSE IF StartsWith(line, H2Prefix) THEN
        <<Paragraph(ReplaceAll(ReplaceAll(line, H2Prefix, <<>>), Star2, <<>>), "Heading2")>>
    ELSE IF StartsWith(line, H1Prefix) THEN
        <<Paragraph(ReplaceAll(ReplaceAll(line, H1Prefix, <<>>), Star2, <<>>), "Heading1"),
          Spacer(1, 4)>>
    ELSE IF StartsWith(line, <<"*", " ">>) \/ StartsWith(line, <<"-", " ">>) THEN
        <<Paragraph(<<BulletGlyph>> \o BoldSub(Strip(Drop(line, 2))), "Bullet")>>
    ELSE
        <<Paragraph(BoldSub(line), "Normal"), Spacer(1, 2)>>

\* the for loop of create_pdf over the split lines
RECURSIVE BuildStory(_)
BuildStory(lines) ==
    IF lines = <<>> THEN <<>> ELSE RenderLine(Head(lines)) \o BuildStory(Tail(lines))

\* create_pdf: the buffer holding the built story, or the exception of the
\* first Paragraph that could not be made
create_pdf(text_content) ==
    LET story == BuildStory(Split(text_content, "\n")) IN
    IF \E i \in 1..Len(story) :
           story[i].kind = "Paragraph" /\ ParagraphRaises(story[i].text)
    THEN [kind |-> "raised", body |-> <<>>]
    ELSE [kind |-> "pdf", body |-> story]

\* ------------------------------------------------ generate_portfolio_html
\* The page: the fixed shell, one element per literal stretch of the
\* template, with the fields spliced in where the f-string names them.
\* linkedin and github are parameters the template never names.
generate_portfolio_html(name, role, bio, projects, email, linkedin, github) ==
    <<"<!DOCTYPE html><html lang=en><head>...<title>">> \o name
    \o <<" - Portfolio</title>", "<link fonts.googleapis.com>", "<style>...</style>",
         "</head><body><header><h1>">> \o name
    \o <<"</h1><p>">> \o role
    \o <<"</p><div class=social-links><a href=mailto:">> \o email
    \o <<">Email Me</a>",
         "<a href=", "https://www.linkedin.com", " target=_blank>LinkedIn</a>",
         "<a href=", "https://www.github.com", " target=_blank>GitHub</a>",
         "</div></header><div class=container><section id=about><h2>About Me</h2><p>">>
    \o bio
    \o <<"</p></section><section id=projects><h2>My Projects</h2><div class=project-grid>">>
    \o projects
    \o <<"</div></section></div><footer><p>&copy; 2026 ">> \o name
    \o <<". Built with ResumAI.</p></footer></body></html>">>

\* ------------------------------------------------------------ the session
VARIABLES
    AVAILABLE_MODELS,   \* the ordered candidate list (line 57)
    session_state,      \* st.session_state: a mapping with the keys present
    pc,                 \* where the script run (or the function under test) is
    event,              \* the interaction that triggered the run, with its inputs
    stream,             \* the stream argument of get_gemini_response
    idx,                \* position of the for loop over AVAILABLE_MODELS
    errors,             \* the errors list of get_gemini_response
    called,             \* the client calls issued so far: <<model, outcome>>
    response,           \* what get_gemini_response returned
    delivered,          \* the fragments the stream has yielded so far
    full_text,          \* the handler's accumulation buffer
    ui,                 \* what the run has put on the page
    input,              \* argument of the pure function under test
    output,             \* its result
    output2             \* the result of applying it to its own result

vars == <<AVAILABLE_MODELS, session_state, pc, event, stream, idx, errors, called,
          response, delivered, full_text, ui, input, output, output2>>

gemini_vars == <<stream, idx, errors, called, response>>

pure_vars == <<input, output, output2>>

\* candidate model identifiers; the shipped list names gemini-2.0-flash only
ModelNames == {"A", "B"}

CanonicalModels == <<"A", "B", "C", "D">>

\* text fields as the user may type them
Strs == {<<>>, <<"x">>}

ProfileKeys == {"name", "email", "phone", "role", "linkedin", "github",
                "education", "skills", "experience", "projects"}

\* the dict literal of lines 40-51
EmptyProfile == [k \in ProfileKeys |-> <<>>]

ResumeStyles == {"Minimalist Clean (ATS Friendly)",
                 "Structured Professional (Project Focused)",
                 "Chronological (Experience Focused)"}

Tools == {"Select an option...", "Resume Builder", "Portfolio Builder",
          "Cover Letter Generator", "ATS Scanner"}

\* the tools whose widgets take their defaults from the session profile
ReadsProfile(tool) ==
    tool \in {"Resume Builder", "Portfolio Builder", "Cover Letter Generator"}

\* the values typed into the ten fields of a form
FormOf(n, r, o) ==
    [k \in ProfileKeys |-> IF k = "name" THEN n ELSE IF k = "role" THEN r ELSE o]

Forms == {FormOf(n, r, o) : n \in Strs, r \in Strs, o \in Strs}

\* what str(e) of a failed model call may read
Errs == {"503 UNAVAILABLE", "429 RESOURCE_EXHAUSTED"}

\* what response.text of a finished model call may read
Texts == {<<"o", "k">>, <<>>}

\* the text of one streamed chunk: a heading line, or a fence and an open tag
Frags == {<<"#", " ", "a", "\n">>, <<BQ, BQ, BQ, BOpen, "b">>}

\* the similarity percentage as the f-string prints it
Scores == {"0.0", "57.14"}

NoEvent == [tool |-> "Select an option...", button |-> "none", form |-> EmptyProfile,
            extra |-> <<>>]

NoResponse == [kind |-> "none", text |-> <<>>, model |-> "none", state |-> "none"]

NoArtifact == [kind |-> "none", body |-> <<>>]

NoUi == [outcome |-> "none", why |-> "none", download |-> NoArtifact]

HasKey(k) == k \in DOMAIN session_state

\* st.session_state[k] = v
SetKey(state, k, v) == [j \in DOMAIN state \cup {k} |-> IF j = k THEN v ELSE state[j]]

\* the log as the sidebar shows it (lines 325-329)
History == IF HasKey("history") THEN session_state["history"] ELSE <<>>

\* add_to_history with list.append in place of insert(0, ...)
add_to_history_Append(state, action, details) ==
    SetKey(state, "history", Append(state["history"], <<action, " - ">> \o details))

\* add_to_history: insert(0, f"{action} - {details}")
add_to_history(state, action, details) ==
    SetKey(state, "history", <<(<<action, " - ">> \o details)>> \o state["history"])

\* ---------------------------------------------------- get_gemini_response
\* f"{model_name} failed: {str(e)}"
ErrorEntry(model_name, e) == <<model_name, " failed: ", e>>

\* repr of a list of str, without its brackets
RECURSIVE ReprItems(_)
ReprItems(items) ==
    IF items = <<>> THEN <<>>
    ELSE <<"'">> \o Head(items) \o <<"'">>
         \o (IF Tail(items) = <<>> THEN <<>> ELSE <<", ">> \o ReprItems(Tail(items)))

\* the message with the last failure only
AllFailedMessage_LastOnly(errs) ==
    <<"All models failed. Errors: ", "[">>
    \o (IF errs = <<>> THEN <<>> ELSE ReprItems(<<errs[Len(errs)]>>)) \o <<"]">>

\* f"All models failed. Errors: {errors}"
AllFailedMessage(errs) ==
    <<"All models failed. Errors: ", "[">> \o ReprItems(errs) \o <<"]">>

\* the for loop taken from the far end of the list
CandidateAt_Reversed(models, i) == models[Len(models) - i + 1]

\* for model_name in AVAILABLE_MODELS: the i-th candidate
CandidateAt(models, i) == models[i]

\* the call of the current candidate raises: record it, go on to the next
CandidateRaises ==
    /\ pc = "call"
    /\ idx <= Len(AVAILABLE_MODELS)
    /\ \E e \in Errs :
        LET model_name == CandidateAt(AVAILABLE_MODELS, idx) IN
        /\ errors' = Append(errors, ErrorEntry(model_name, e))
        /\ called' = Append(called, <<model_name, "raised">>)
    /\ idx' = idx + 1
    /\ UNCHANGED <<AVAILABLE_MODELS, session_state, pc, event, stream, response,
                   delivered, full_text, ui, pure_vars>>

\* the call of the current candidate does not raise: return its stream
\* object (stream) or its response.text (no stream)
CandidateReturns ==
    /\ pc = "call"
    /\ idx <= Len(AVAILABLE_MODELS)
    /\ LET model_name == CandidateAt(AVAILABLE_MODELS, idx) IN
        /\ called' = Append(called, <<model_name, "returned">>)
        /\ IF stream
           THEN response' = [kind |-> "stream", text |-> <<>>, model |-> model_name,
                             state |-> "open"]
           ELSE \E t \in Texts :
                    response' = [kind |-> "str", text |-> t, model |-> model_name,
                                 state |-> "none"]
    /\ pc' = "returned"
    /\ UNCHANGED <<AVAILABLE_MODELS, session_state, event, stream, idx, errors,
                   delivered, full_text, ui, pure_vars>>

\* the loop ran off the end of the list: return the failure string
AllFailed ==
    /\ pc = "call"
    /\ idx > Len(AVAILABLE_MODELS)
    /\ response' = [kind |-> "str", text |-> AllFailedMessage(errors), model |-> "none",
                    state |-> "none"]
    /\ pc' = "returned"
    /\ UNCHANGED <<AVAILABLE_MODELS, session_state, event, stream, idx, errors, called,
                   delivered, full_text, ui, pure_vars>>

\* get_gemini_response called on its own, with any list and either flag
InitGemini ==
    /\ AVAILABLE_MODELS \in SeqUpTo(ModelNames, MaxModels)
    /\ session_state = [history |-> <<>>, resume_data |-> EmptyProfile]
    /\ pc = "call"
    /\ event = NoEvent
    /\ stream \in BOOLEAN
    /\ idx = 1
    /\ errors = <<>>
    /\ called = <<>>
    /\ response = NoResponse
    /\ delivered = <<>>
    /\ full_text = <<>>
    /\ ui = NoUi
    /\ input = <<>>
    /\ output = <<>>
    /\ output2 = <<>>

NextGemini == CandidateRaises \/ CandidateReturns \/ AllFailed

SpecGemini == InitGemini /\ [][NextGemini]_vars

\* C1: the candidates are called strictly in list order, every call before
\* the last one raised, and what is returned is the result of the first
\* candidate whose call did not raise; nothing is called after it.
C1_FirstSuccessInOrder ==
    /\ Len(called) <= Len(AVAILABLE_MODELS)
    /\ \A i \in 1..Len(called) : called[i][1] = AVAILABLE_MODELS[i]
    /\ \A i \in 1..(Len(called) - 1) : called[i][2] = "raised"
    /\ pc = "call" => \A i \in 1..Len(called) : called[i][2] = "raised"
    /\ (pc = "returned" /\ response.model # "none") =>
        /\ called # <<>>
        /\ called[Len(called)] = <<AVAILABLE_MODELS[Len(called)], "returned">>
        /\ response.model = AVAILABLE_MODELS[Len(called)]
    /\ (pc = "returned" /\ response.model = "none") =>
        /\ Len(called) = Len(AVAILABLE_MODELS)
        /\ \A i \in 1..Len(called) : called[i][2] = "raised"

\* [A, B] with A failing and B succeeding returns B's result
C1_Witness ==
    /\ pc = "returned"
    /\ AVAILABLE_MODELS = <<"A", "B">>
    /\ called = << <<"A", "raised">>, <<"B", "returned">> >>
    /\ response.model = "B"

\* C2: when every candidate raised, get_gemini_response returns (it does not
\* raise) a string holding one failure entry per candidate, in the order the
\* candidates were tried, whatever the stream flag.
C2_AllFailedString ==
    /\ pc \in {"call", "returned"}
    /\ (pc = "returned" /\ \A i \in 1..Len(called) : called[i][2] = "raised") =>
        /\ response.kind = "str"
        /\ SelectSeq(response.text, LAMBDA t : t \in ModelNames) = AVAILABLE_MODELS
        /\ Len(SelectSeq(response.text, LAMBDA t : t = " failed: ")) = Len(AVAILABLE_MODELS)
        /\ SelectSeq(response.text, LAMBDA t : t \in Errs)
             = [i \in 1..Len(errors) |-> errors[i][3]]

C2_Witness ==
    /\ pc = "returned"
    /\ stream
    /\ AVAILABLE_MODELS = <<"B", "A">>
    /\ \A i \in 1..Len(called) : called[i][2] = "raised"
    /\ response.kind = "str"

\* ------------------------------------------------------- the script runs
\* a session with no key set
EmptyState == [k \in {} |-> <<>>]

\* the reset of everything one script run holds in its locals
RunLocalsCleared ==
    /\ stream' = FALSE
    /\ idx' = 1
    /\ errors' = <<>>
    /\ called' = <<>>
    /\ response' = NoResponse
    /\ delivered' = <<>>
    /\ full_text' = <<>>

\* The interactions: a tool is selected and at most one button is clicked.
\* form holds what the form's fields read; for the Portfolio Builder its
\* name, role, linkedin and github fields, its bio (under "experience") and
\* its project list (under "projects").  extra is the resume style, the
\* company name of a cover letter, or what the scorer made of the upload
\* (nothing uploaded, a percentage, or the scorer's ValueError).
Events ==
    {[tool |-> t, button |-> b, form |-> EmptyProfile, extra |-> <<>>] :
        t \in Tools, b \in {"none", "reset"}}
    \cup {[tool |-> "Resume Builder", button |-> "save", form |-> f, extra |-> <<>>] :
        f \in Forms}
    \cup {[tool |-> "Resume Builder", button |-> "generate", form |-> FormOf(n, r, <<>>),
           extra |-> <<st>>] : n \in Strs, r \in Strs, st \in ResumeStyles}
    \cup {[tool |-> "Portfolio Builder", button |-> "generate", form |-> f,
           extra |-> <<>>] : f \in Forms}
    \cup {[tool |-> "Cover Letter Generator", button |-> "generate",
           form |-> EmptyProfile, extra |-> c] : c \in Strs}
    \cup {[tool |-> "ATS Scanner", button |-> "generate", form |-> EmptyProfile,
           extra |-> x] : x \in {<<>>, <<"ValueError">>} \cup {<<sc>> : sc \in Scores}}

\* the user interacts: Streamlit runs the script from its first line
StartRun ==
    /\ pc = "idle"
    /\ \E ev \in Events :
        /\ ev.button = "generate" => Len(History) < MaxHistory
        /\ event' = ev
    /\ pc' = "init"
    /\ UNCHANGED <<AVAILABLE_MODELS, session_state, gemini_vars, delivered, full_text,
                   ui, pure_vars>>

\* lines 36-51 with the profile left out
InitSessionState_HistoryOnly ==
    /\ pc = "init"
    /\ session_state' =
        IF HasKey("history") THEN session_state ELSE SetKey(session_state, "history", <<>>)
    /\ pc' = "sidebar"
    /\ UNCHANGED <<AVAILABLE_MODELS, event, gemini_vars, delivered, full_text, ui,
                   pure_vars>>

\* lines 36-51: each of the two keys is set if it is not in the session
InitSessionState ==
    /\ pc = "init"
    /\ LET withHistory ==
              IF HasKey("history") THEN session_state
              ELSE SetKey(session_state, "history", <<>>)
       IN  session_state' =
              IF HasKey("resume_data") THEN withHistory
              ELSE SetKey(withHistory, "resume_data", EmptyProfile)
    /\ pc' = "sidebar"
    /\ UNCHANGED <<AVAILABLE_MODELS, event, gemini_vars, delivered, full_text, ui,
                   pure_vars>>

\* lines 318-321: every key is deleted, then st.rerun() abandons this run
\* and starts the script again with no button clicked
ResetAllData ==
    /\ pc = "sidebar"
    /\ event.button = "reset"
    /\ session_state' = EmptyState
    /\ event' = [event EXCEPT !.button = "none"]
    /\ pc' = "init"
    /\ UNCHANGED <<AVAILABLE_MODELS, gemini_vars, delivered, full_text, ui, pure_vars>>

\* lines 323-339: the sidebar shows the log, the run goes on to the tool
SidebarHistory ==
    /\ pc = "sidebar"
    /\ event.button # "reset"
    /\ pc' = "tool"
    /\ UNCHANGED <<AVAILABLE_MODELS, session_state, event, gemini_vars, delivered,
                   full_text, ui, pure_vars>>

\* st.session_state['resume_data'][k] can be read for each of the ten keys
ProfileReadable ==
    /\ HasKey("resume_data")
    /\ ProfileKeys \subseteq DOMAIN session_state["resume_data"]

\* the widgets of the selected tool fail to read their defaults: KeyError
WidgetsRaise == ReadsProfile(event.tool) /\ ~ProfileReadable

Shown(outcome, why, download) ==
    [outcome |-> outcome, why |-> why, download |-> download]

\* the dict of lines 381-385
SavedProfile(form) == [k \in ProfileKeys |-> form[k]]

\* the tool's widgets are drawn and no button of the tool was clicked
RenderTool ==
    /\ pc = "tool"
    /\ event.button = "none"
    /\ ui' = IF WidgetsRaise THEN Shown("exception", "KeyError", NoArtifact) ELSE ui
    /\ pc' = "done"
    /\ UNCHANGED <<AVAILABLE_MODELS, session_state, event, gemini_vars, delivered,
                   full_text, pure_vars>>

\* lines 380-386
SaveDetails ==
    /\ pc = "tool"
    /\ event.button = "save"
    /\ IF WidgetsRaise
       THEN /\ ui' = Shown("exception", "KeyError", NoArtifact)
            /\ UNCHANGED session_state
       ELSE /\ session_state' = SetKey(session_state, "resume_data", SavedProfile(event.form))
            /\ ui' = Shown("saved", "none", NoArtifact)
    /\ pc' = "done"
    /\ UNCHANGED <<AVAILABLE_MODELS, event, gemini_vars, delivered, full_text, pure_vars>>

\* what stops a Generate/Scan click before the model is called: "none" if
\* nothing does
Gate ==
    IF WidgetsRaise THEN "KeyError"
    ELSE IF event.tool = "Resume Builder"
              /\ (event.form["name"] = <<>> \/ event.form["role"] = <<>>) THEN "warning"
    ELSE IF event.tool = "ATS Scanner" /\ event.extra = <<>> THEN "warning"
    ELSE IF event.tool = "ATS Scanner" /\ event.extra = <<"ValueError">> THEN "ValueError"
    ELSE "none"

\* a Generate/Scan button was clicked: the prompt is built and
\* get_gemini_response(prompt, stream=True) is entered (lines 433, 501, 558, 620)
GenerateClicked ==
    /\ pc = "tool"
    /\ event.button = "generate"
    /\ IF Gate = "none"
       THEN /\ pc' = "call"
            /\ stream' = TRUE
            /\ UNCHANGED ui
       ELSE /\ pc' = "done"
            /\ ui' = IF Gate = "warning" THEN Shown("warning", "none", NoArtifact)
                     ELSE Shown("exception", Gate, NoArtifact)
            /\ UNCHANGED stream
    /\ UNCHANGED <<AVAILABLE_MODELS, session_state, event, idx, errors, called, response,
                   delivered, full_text, pure_vars>>

\* full_text = chunk.text: the buffer holds the last fragment only
Accumulate_Overwrite(full, chunk) == chunk

\* full_text += chunk.text
Accumulate(full, chunk) == full \o chunk

\* isinstance(stream_response, str): the failure string is shown; otherwise
\* the for loop over the stream is entered
HandleResponse ==
    /\ pc = "returned"
    /\ IF response.kind = "str"
       THEN /\ ui' = Shown("error", "returned_string", NoArtifact)
            /\ pc' = "done"
       ELSE /\ pc' = "consume"
            /\ UNCHANGED ui
    /\ UNCHANGED <<AVAILABLE_MODELS, session_state, event, gemini_vars, delivered,
                   full_text, pure_vars>>

\* the stream yields its next fragment
StreamYields ==
    /\ pc = "consume"
    /\ Len(delivered) < MaxFragments
    /\ \E chunk \in Frags :
        /\ delivered' = Append(delivered, chunk)
        /\ full_text' = Accumulate(full_text, chunk)
    /\ UNCHANGED <<AVAILABLE_MODELS, session_state, pc, event, gemini_vars, ui, pure_vars>>

\* the stream raises while it is read, and the handler logs the action all the same
StreamRaises_Logs ==
    /\ pc = "consume"
    /\ response' = [response EXCEPT !.state = "failed"]
    /\ ui' = Shown("error", "stream_failed", NoArtifact)
    /\ session_state' = SetKey(session_state, "history",
                               <<(<<"Generated", " - ">>)>> \o session_state["history"])
    /\ pc' = "done"
    /\ UNCHANGED <<AVAILABLE_MODELS, event, stream, idx, errors, called,
                   delivered, full_text, pure_vars>>

\* the stream raises while it is read: the handler's except shows the error
StreamRaises ==
    /\ pc = "consume"
    /\ response' = [response EXCEPT !.state = "failed"]
    /\ ui' = Shown("error", "stream_failed", NoArtifact)
    /\ pc' = "done"
    /\ UNCHANGED <<AVAILABLE_MODELS, session_state, event, stream, idx, errors, called,
                   delivered, full_text, pure_vars>>

\* the artifact a tool builds from the accumulated text
BuildArtifact(ev, state, text) ==
    IF ev.tool \in {"Resume Builder", "Cover Letter Generator"} THEN create_pdf(text)
    ELSE IF ev.tool = "Portfolio Builder" THEN
        [kind |-> "html",
         body |-> generate_portfolio_html(ev.form["name"], ev.form["role"],
                      ev.form["experience"], clean_ai_response(text),
                      state["resume_data"]["email"],
                      ev.form["linkedin"], ev.form["github"])]
    ELSE NoArtifact

\* the label and the detail string of the tool's history entry
HistoryAction(ev) ==
    IF ev.tool = "Resume Builder" THEN "Generated Resume"
    ELSE IF ev.tool = "Portfolio Builder" THEN "Generated Portfolio"
    ELSE IF ev.tool = "Cover Letter Generator" THEN "Generated Cover Letter"
    ELSE "ATS Scan Performed"

HistoryDetails(ev) ==
    IF ev.tool = "Resume Builder" THEN ev.form["name"] \o <<" (">> \o ev.extra \o <<")">>
    ELSE IF ev.tool = "Portfolio Builder" THEN ev.form["name"]
    ELSE IF ev.tool = "Cover Letter Generator" THEN ev.extra
    ELSE <<"Score: ">> \o ev.extra \o <<"%">>

\* the stream is exhausted: the artifact is built from the buffer and offered,
\* and the action is logged; an exception on the way is shown instead
StreamEnds ==
    /\ pc = "consume"
    /\ response' = [response EXCEPT !.state = "exhausted"]
    /\ LET artifact == BuildArtifact(event, session_state, full_text) IN
       IF artifact.kind = "raised"
       THEN /\ ui' = Shown("error", "artifact_failed", NoArtifact)
            /\ UNCHANGED session_state
       ELSE /\ ui' = IF artifact.kind = "none" THEN Shown("feedback", "none", NoArtifact)
                     ELSE Shown("download", "none", artifact)
            /\ session_state' = add_to_history(session_state, HistoryAction(event),
                                               HistoryDetails(event))
    /\ pc' = "done"
    /\ UNCHANGED <<AVAILABLE_MODELS, event, stream, idx, errors, called, delivered,
                   full_text, pure_vars>>

\* the script run is over; the page waits for the next interaction
EndRun ==
    /\ pc = "done"
    /\ pc' = "idle"
    /\ event' = NoEvent
    /\ ui' = NoUi
    /\ RunLocalsCleared
    /\ UNCHANGED <<AVAILABLE_MODELS, session_state, pure_vars>>

\* a new browser session of the shipped script, the candidate list written
\* as the first MaxModels identifiers
Init ==
    /\ AVAILABLE_MODELS = SubSeq(CanonicalModels, 1, MaxModels)
    /\ session_state = EmptyState
    /\ pc = "idle"
    /\ event = NoEvent
    /\ stream = FALSE
    /\ idx = 1
    /\ errors = <<>>
    /\ called = <<>>
    /\ response = NoResponse
    /\ delivered = <<>>
    /\ full_text = <<>>
    /\ ui = NoUi
    /\ input = <<>>
    /\ output = <<>>
    /\ output2 = <<>>

Next ==
    \/ StartRun
    \/ InitSessionState
    \/ ResetAllData
    \/ SidebarHistory
    \/ RenderTool
    \/ SaveDetails
    \/ GenerateClicked
    \/ CandidateRaises
    \/ CandidateReturns
    \/ AllFailed
    \/ HandleResponse
    \/ StreamYields
    \/ StreamRaises
    \/ StreamEnds
    \/ EndRun

Spec == Init /\ [][Next]_vars

\* C3: a model failure on the stream path, at the call or while the
\* fragments are read, is recovered by trying the next candidate: the
\* handler gives up on a failed stream only when every candidate was tried.
C3_NextCandidateTried ==
    (pc = "done" /\ ui.why = "stream_failed") => Len(called) = Len(AVAILABLE_MODELS)

\* C4: a download is on offer only once the stream is exhausted, and it is
\* the artifact built from all the fragments, in delivery order; a failed
\* stream or the failure string leaves no download.
C4_NoPartialDownload ==
    /\ ui.download.kind # "none" =>
        /\ pc = "done"
        /\ response.kind = "stream"
        /\ response.state = "exhausted"
        /\ ui.download = BuildArtifact(event, session_state, Concat(delivered))
    /\ (response.kind = "str" \/ response.state = "failed") => ui.download.kind = "none"

C4_Witness ==
    /\ ui.download.kind = "pdf"
    /\ Len(delivered) >= 2
    /\ response.state = "exhausted"

IsSuffix(old, new) ==
    /\ Len(old) <= Len(new)
    /\ SubSeq(new, Len(new) - Len(old) + 1, Len(new)) = old

\* C9 as stated: whatever the user does, Reset All Data included, the
\* entries of the log stay, unmodified and in order, behind any new entry.
C9_AppendOnlyAlways == [][IsSuffix(History, History')]_vars

\* C9 amended: every step other than Reset All Data keeps the entries of
\* the log, unmodified and in order, behind at most one new entry at the
\* front; Reset All Data empties the log.
C9_AppendOnlyUntilReset ==
    [][IF pc = "sidebar" /\ event.button = "reset"
       THEN History' = <<>>
       ELSE IsSuffix(History, History') /\ Len(History') <= Len(History) + 1]_vars

C9_Witness ==
    /\ pc = "done"
    /\ Len(History) = 2
    /\ History[1][1] = "Generated Portfolio"
    /\ History[2][1] = "Generated Resume"

\* C10: whenever the selected tool reads the session profile, the profile
\* is in the session and holds the ten keys, each bound to a string.
C10_ProfileNeverAbsent ==
    (pc \in {"tool", "call", "returned", "consume", "done"}) =>
        /\ HasKey("resume_data")
        /\ DOMAIN session_state["resume_data"] = ProfileKeys
        /\ \A k \in ProfileKeys : session_state["resume_data"][k] \in Strs

C10_Witness ==
    /\ pc = "tool"
    /\ ReadsProfile(event.tool)
    /\ HasKey("resume_data")
    /\ session_state["resume_data"]["name"] = <<"x">>
    /\ session_state["resume_data"]["education"] = <<>>

\* C13: a Generate/Scan action adds exactly one entry, in front, when its
\* stream was read to the end and its artifact was built; the failure
\* string, a stream that raises and an artifact that cannot be built leave
\* the log as it was.
C13_HistoryIffSuccess ==
    [][~(pc = "sidebar" /\ event.button = "reset") =>
        IF pc = "consume" /\ pc' = "done" /\ ui'.outcome \in {"download", "feedback"}
        THEN /\ response'.state = "exhausted"
             /\ History' # <<>>
             /\ Tail(History') = History
             /\ Head(History') = <<HistoryAction(event), " - ">> \o HistoryDetails(event)
        ELSE History' = History]_vars

\* a failed stream after a logged success: the log still holds the one entry
C13_Witness ==
    /\ pc = "done"
    /\ ui.why = "stream_failed"
    /\ delivered # <<>>
    /\ Len(History) = 1

\* ------------------------------------------- the pure functions on their own
\* the state around a pure function under test: no session, no run
NoSession ==
    /\ AVAILABLE_MODELS = <<>>
    /\ session_state = EmptyState
    /\ event = NoEvent
    /\ stream = FALSE
    /\ idx = 1
    /\ errors = <<>>
    /\ called = <<>>
    /\ response = NoResponse
    /\ delivered = <<>>
    /\ full_text = <<>>
    /\ ui = NoUi

session_vars == <<AVAILABLE_MODELS, session_state, event, gemini_vars, delivered,
                  full_text, ui>>

\* model output as clean_ai_response may meet it: runs of backquotes, the
\* word html, fences, text and whitespace, in any order
CleanPieces == {<<BQ>>, <<BQ, BQ>>, Fence, FenceHtml, <<"h", "t", "m", "l">>,
                <<" ">>, <<"x">>, <<"\n">>}

CleanInputs == {Concat(ps) : ps \in SeqUpTo(CleanPieces, MaxPieces)}

InitClean ==
    /\ NoSession
    /\ pc = "in"
    /\ input \in CleanInputs
    /\ output = <<>>
    /\ output2 = <<>>

\* formatted = clean_ai_response(raw)
CleanOnce ==
    /\ pc = "in"
    /\ output' = clean_ai_response(input)
    /\ pc' = "out"
    /\ UNCHANGED <<session_vars, input, output2>>

\* clean_ai_response applied to its own result
CleanTwice ==
    /\ pc = "out"
    /\ output2' = clean_ai_response(output)
    /\ pc' = "out2"
    /\ UNCHANGED <<session_vars, input, output>>

NextClean == CleanOnce \/ CleanTwice

SpecClean == InitClean /\ [][NextClean]_vars

\* C5: clean_ai_response is idempotent: cleaning a cleaned text changes nothing.
C5_CleanIdempotent == pc = "out2" => output2 = output

\* removing the html fence brings the backquotes around it together
C5_Witness ==
    /\ pc = "out2"
    /\ input = <<BQ, BQ>> \o FenceHtml \o <<BQ>>
    /\ output = <<>>
    /\ output2 = output

\* ---- create_pdf
JoinLines(ls) ==
    Concat([i \in 1..Len(ls) |-> IF i = 1 THEN ls[i] ELSE <<"\n">> \o ls[i]])

ScenarioLines == << <<"#", "#", " ", "S">>, <<"-", " ", "P">>,
                    <<"-", " ", "*", "*", "Q", "*", "*">> >>

\* the lines texts of several lines are put together from
SmallLines == {ScenarioLines[1], ScenarioLines[2], ScenarioLines[3],
               <<>>, <<" ">>, <<"a">>, <<"#", " ", "b">>}

LinePrefixes == {<<>>, H1Prefix, H2Prefix, H3Prefix, <<"-", " ">>, <<"*", " ">>,
                 <<"#">>, <<"-">>}

BodyPieces == {<<"a">>, Star2, <<" ">>, H1Prefix, <<BOpen>>, <<BClose>>}

\* single lines: optional indentation, a prefix, a body, optional trailing blank
RichLines ==
    {lead \o prefix \o Concat(body) \o trail :
        lead \in {<<>>, <<" ">>}, prefix \in LinePrefixes,
        body \in SeqUpTo(BodyPieces, MaxBodyPieces), trail \in {<<>>, <<" ">>}}

PdfInputs ==
    {JoinLines(ls) : ls \in SeqUpTo(SmallLines, MaxLines) \ {<<>>}} \cup RichLines

InitPdf ==
    /\ NoSession
    /\ pc = "in"
    /\ input \in PdfInputs
    /\ output = NoArtifact
    /\ output2 = <<>>

\* pdf_file = create_pdf(text)
RenderPdf ==
    /\ pc = "in"
    /\ output' = create_pdf(input)
    /\ pc' = "out"
    /\ UNCHANGED <<session_vars, input, output2>>

NextPdf == RenderPdf

SpecPdf == InitPdf /\ [][NextPdf]_vars

Letters == {"a", "b", "S", "P", "Q"}

LettersOf(s) == SelectSeq(s, LAMBDA c : c \in Letters)

IsBlank(l) == \A i \in 1..Len(l) : l[i] \in Whitespace

\* the non-blank lines of the input, in input order
NonBlankLines == SelectSeq(Split(input, "\n"), LAMBDA l : ~IsBlank(l))

\* the Paragraph blocks of the story, in story order
Paragraphs == SelectSeq(output.body, LAMBDA f : f.kind = "Paragraph")

Built == pc = "out" /\ output.kind = "pdf"

\* C6 as stated: the story handed to the builder has exactly one element
\* per non-blank input line, in input order.
C6_OneElementPerLine ==
    Built =>
        /\ Len(output.body) = Len(NonBlankLines)
        /\ \A i \in 1..Len(output.body) :
              LettersOf(output.body[i].text) = LettersOf(NonBlankLines[i])

\* C6 amended: the story holds exactly one Paragraph per non-blank input
\* line, in input order; its only other elements are Spacers, one right
\* after every level-1 heading and every body paragraph; blank lines
\* contribute nothing.
C6_OneParagraphPerLine ==
    Built =>
        /\ Len(Paragraphs) = Len(NonBlankLines)
        /\ \A i \in 1..Len(Paragraphs) :
              LettersOf(Paragraphs[i].text) = LettersOf(NonBlankLines[i])
        /\ \A j \in 1..Len(output.body) :
              LET f == output.body[j] IN
              /\ f.kind = "Spacer" =>
                    /\ j > 1
                    /\ output.body[j - 1].kind = "Paragraph"
                    /\ output.body[j - 1].style \in {"Heading1", "Normal"}
              /\ (f.kind = "Paragraph" /\ f.style \in {"Heading1", "Normal"}) =>
                    /\ j < Len(output.body)
                    /\ output.body[j + 1].kind = "Spacer"

\* a level-1 heading, a blank line and a body line, in that order
C6_Witness ==
    /\ Built
    /\ input = JoinLines(<< <<"#", " ", "b">>, <<" ">>, <<"a">> >>)
    /\ Len(Paragraphs) = 2
    /\ Len(output.body) = 4

NoMarkup(s) == SelectSeq(s, LAMBDA c : c \notin {BOpen, BClose, "*"})

Stars(s) == Len(SelectSeq(s, LAMBDA c : c = "*"))

\* text renders content with its one **...** pair turned into a bold span
OnePairBold(content, text) ==
    \A p \in 1..Len(content), q \in 1..Len(content) :
        (/\ p + 2 <= q
         /\ q + 1 <= Len(content)
         /\ SubSeq(content, p, p + 1) = Star2
         /\ SubSeq(content, q, q + 1) = Star2
         /\ Stars(content) = 4) =>
            text = SubSeq(content, 1, p - 1) \o <<BOpen>> \o SubSeq(content, p + 2, q - 1)
                     \o <<BClose>> \o SubSeq(content, q + 2, Len(content))

\* the style C7 names for a line, from the prefix of the trimmed line alone
StyleByPrefix(l) ==
    IF StartsWith(l, <<"#", " ">>) THEN "Heading1"
    ELSE IF StartsWith(l, <<"#", "#", " ">>) THEN "Heading2"
    ELSE IF StartsWith(l, <<"#", "#", "#", " ">>) THEN "Heading3"
    ELSE IF StartsWith(l, <<"-", " ">>) \/ StartsWith(l, <<"*", " ">>) THEN "Bullet"
    ELSE "Normal"

C11_CreatePdfTotal == pc = "out" => output.kind = "pdf"

\* the heading prefix of a trimmed line, or the empty string
HeadingPrefix(l) ==
    IF StartsWith(l, <<"#", " ">>) THEN <<"#", " ">>
    ELSE IF StartsWith(l, <<"#", "#", " ">>) THEN <<"#", "#", " ">>
    ELSE IF StartsWith(l, <<"#", "#", "#", " ">>) THEN <<"#", "#", "#", " ">>
    ELSE <<>>

\* s with every * of a ** pair of characters taken out, left to right
RECURSIVE WithoutStar2(_)
WithoutStar2(s) ==
    IF Len(s) < 2 THEN s
    ELSE IF s[1] = "*" /\ s[2] = "*" THEN WithoutStar2(Tail(Tail(s)))
    ELSE <<s[1]>> \o WithoutStar2(Tail(s))

\* the text of a heading block without the bold tags a level-3 heading is
\* wrapped in
HeadingText(para) ==
    IF para.style = "Heading3" THEN SubSeq(para.text, 2, Len(para.text) - 1)
    ELSE para.text

\* C12: the text of a heading block is the trimmed line without its leading
\* prefix and without its ** markers; every other character stays, later
\* occurrences of "# ", "## " or "### " inside the line included.
C12_HeadingKeepsInnerText ==
    Built =>
        \A i \in 1..Len(Paragraphs) :
            LET l == Strip(NonBlankLines[i])
                para == Paragraphs[i]
            IN  (i <= Len(NonBlankLines) /\ HeadingPrefix(l) # <<>>) =>
                    HeadingText(para) = WithoutStar2(Drop(l, Len(HeadingPrefix(l))))

\* ---- generate_portfolio_html
HtmlFields == {"name", "role", "bio", "projects", "email", "linkedin", "github"}

InitHtml ==
    /\ NoSession
    /\ pc = "in"
    /\ input \in [HtmlFields -> Strs]
    /\ output = <<>>
    /\ output2 = <<>>

\* full_html = generate_portfolio_html(...)
AssembleHtml ==
    /\ pc = "in"
    /\ output' = generate_portfolio_html(input["name"], input["role"], input["bio"],
                     input["projects"], input["email"], input["linkedin"],
                     input["github"])
    /\ pc' = "out"
    /\ UNCHANGED <<session_vars, input, output2>>

NextHtml == AssembleHtml

SpecHtml == InitHtml /\ [][NextHtml]_vars

====
